---- MODULE Spec2Model ----
(***************************************************************************)
(* Model of the Notion integration: the HTTP facade of main.py             *)
(* (test_database_access, test_pagination) and the batch QR generator of   *)
(* qr_generator.py (NotionQRGenerator.generate_all_qrs).                   *)
(*                                                                         *)
(* Python strings are sequences of one-character strings, so that "" is    *)
(* <<>> and concatenation is \o.  None is the one-element sequence         *)
(* <<"None">>; a cursor token for position p of the remote set is          *)
(* <<"c", p>>.  A Python dict is a TLA+ function (record) on its keys.      *)
(***************************************************************************)
EXTENDS Integers, Sequences, FiniteSets, TLC

VARIABLES
    prog,               \* entry point that runs: "test_database_access", "test_pagination", "generate_all_qrs"
    remoteKind,         \* behaviour of the remote store: "full", "short", "adversarial"
    db,                 \* the remote record set, in remote order
    pc,                 \* position of the running entry point
    pagination,         \* PaginationParams of the test_database_access request
    response,           \* last raw response of notion.databases.query
    sent_cursor,        \* start_cursor parameter of the last remote query (None: not sent)
    num_queries,        \* number of remote queries issued so far
    fetched,            \* concatenation of the raw results of all remote responses so far
    all_more,           \* TRUE while every remote response so far reported has_more = true
    all_pages,          \* test_pagination: all_pages
    has_more,           \* test_pagination: has_more
    next_cursor,        \* test_pagination: next_cursor
    page_count,         \* test_pagination: page_count
    http,               \* outcome of the HTTP request: [status, body]
    all_results,        \* generate_all_qrs: all_results
    start_cursor,       \* generate_all_qrs: start_cursor
    items_by_name,      \* generate_all_qrs: items_by_name, in insertion order
    item_idx,           \* generate_all_qrs: number of records the grouping loop has consumed
    skipped,            \* generate_all_qrs: records the grouping loop skipped, in order
    render_idx,         \* generate_all_qrs: number of groups the rendering loop has consumed
    render_log,         \* generate_all_qrs: calls of generate_item_qr so far: [name, page_id, ok]
    generated_count     \* generate_all_qrs: generated_count

vars == <<prog, remoteKind, db, pc, pagination, response, sent_cursor, num_queries,
          fetched, all_more, all_pages, has_more, next_cursor, page_count, http,
          all_results, start_cursor, items_by_name, item_idx, skipped, render_idx, render_log,
          generated_count>>

apiVars == <<all_pages, has_more, next_cursor, page_count, http, pagination>>
batchVars == <<all_results, start_cursor, items_by_name, item_idx, skipped,
               render_idx, render_log, generated_count>>

(***************************************************************************)
(* Program constants                                                       *)
(***************************************************************************)
NotionPageLimit == 100
TestPageSize == 10
MaxPaginationRounds == 10
BatchPageSize == 100

(***************************************************************************)
(* Bounds of the model                                                     *)
(***************************************************************************)
MaxRemote == 101
MaxShortRemote == 12
MaxAdvRecords == 2
MaxRecords == 3
MaxFrags == 2
MaxBatchRounds == 11

(***************************************************************************)
(* Values                                                                  *)
(***************************************************************************)
None == <<"None">>
EmptyStr == <<>>
Cur(p) == <<"c", p>>
IsToken(c) == Len(c) = 2 /\ c[1] = "c"
Truthy(c) == c # None /\ c # EmptyStr
Min(a, b) == IF a <= b THEN a ELSE b

Frag(s) == [plain_text |-> s, text |-> [content |-> s]]
Mention(s) == [plain_text |-> s, mention |-> [user |-> s]]
TitleProp(frags) == [type |-> "title", title |-> frags]
RichTextProp(frags) == [type |-> "rich_text", rich_text |-> frags]
NumberProp(n) == [type |-> "number", number |-> n]
SelectProp(s) == [type |-> "select", select |-> [name |-> s]]
MultiSelectProp(names) == [type |-> "multi_select", multi_select |-> names]
CheckboxProp(b) == [type |-> "checkbox", checkbox |-> b]

Rec(i, props) ==
    [id |-> i, url |-> <<"u", i>>, created_time |-> i, last_edited_time |-> i + 1,
     properties |-> props]

EmptyResponse == [results |-> <<>>, has_more |-> FALSE, next_cursor |-> None]
NoHttp == [status |-> 0, body |-> [detail |-> None]]

(***************************************************************************)
(* The remote store (notion.databases.query).  A start cursor that is not  *)
(* a token means "start of set".  A "full" remote fills every page, a      *)
(* "short" remote may return fewer records than asked while records        *)
(* remain, an "adversarial" remote reports any has_more and may drop the   *)
(* cursor.                                                                 *)
(***************************************************************************)
CursorPos(c) == IF IsToken(c) THEN c[2] ELSE 0

FaithfulPage(p, k) ==
    [results |-> SubSeq(db, p + 1, p + k),
     has_more |-> p + k < Len(db),
     next_cursor |-> IF p + k < Len(db) THEN Cur(p + k) ELSE None]

RemoteResponses(cursor, page_size) ==
    LET p == CursorPos(cursor)
        rem == Len(db) - p
        full == Min(page_size, rem)
    IN  CASE remoteKind = "full" -> {FaithfulPage(p, full)}
          [] remoteKind = "short" ->
                {FaithfulPage(p, k) : k \in IF rem = 0 THEN {0} ELSE 1..full}
          [] remoteKind = "adversarial" ->
                {[results |-> SubSeq(db, p + 1, p + full), has_more |-> h, next_cursor |-> c] :
                    h \in BOOLEAN, c \in {None, EmptyStr, Cur(p + full)}}

RemoteError == <<"e", "r", "r">>

(***************************************************************************)
(* main.py: test_database_access                                           *)
(***************************************************************************)
\* mutant: the fragments are joined last to first
RECURSIVE JoinPlainText_Reversed(_)
JoinPlainText_Reversed(frags) ==
    IF Len(frags) = 0 THEN EmptyStr
    ELSE JoinPlainText_Reversed(Tail(frags)) \o frags[1].plain_text

RECURSIVE JoinPlainText(_)
JoinPlainText(frags) ==
    IF Len(frags) = 0 THEN EmptyStr
    ELSE frags[1].plain_text \o JoinPlainText(Tail(frags))

FlattenProperty(prop_data) ==
    IF prop_data.type = "title" THEN JoinPlainText(prop_data.title)
    ELSE IF prop_data.type = "rich_text" THEN JoinPlainText(prop_data.rich_text)
    ELSE prop_data[prop_data.type]

FormatPage(page) ==
    [id |-> page.id,
     url |-> page.url,
     created_time |-> page.created_time,
     last_edited_time |-> page.last_edited_time,
     properties |-> [prop_name \in DOMAIN page.properties |->
                        FlattenProperty(page.properties[prop_name])]]

FormatResponse(resp) ==
    [object |-> "list",
     results |-> [i \in 1..Len(resp.results) |-> FormatPage(resp.results[i])],
     has_more |-> resp.has_more,
     next_cursor |-> resp.next_cursor,
     type |-> "page"]

ClampPageSize(page_size) == Min(page_size, NotionPageLimit)

DatabaseAccessFailure ==
    [status |-> 500,
     body |-> [detail |-> [error |-> RemoteError,
                           message |-> "Failed to access Notion database",
                           database_id |-> "database_id"]]]

TestDatabaseAccessOk ==
    /\ prog = "test_database_access"
    /\ pc = "start"
    /\ \E r \in RemoteResponses(pagination.start_cursor, ClampPageSize(pagination.page_size)) :
          /\ response' = r
          /\ fetched' = fetched \o r.results
          /\ all_more' = (all_more /\ r.has_more)
          /\ http' = [status |-> 200, body |-> FormatResponse(r)]
    /\ sent_cursor' = pagination.start_cursor
    /\ num_queries' = num_queries + 1
    /\ pc' = "done"
    /\ UNCHANGED <<prog, remoteKind, db, pagination, all_pages, has_more, next_cursor,
                   page_count, batchVars>>

TestDatabaseAccessFail ==
    /\ prog = "test_database_access"
    /\ pc = "start"
    /\ sent_cursor' = pagination.start_cursor
    /\ num_queries' = num_queries + 1
    /\ http' = DatabaseAccessFailure
    /\ pc' = "error"
    /\ UNCHANGED <<prog, remoteKind, db, pagination, response, fetched, all_more, all_pages, has_more,
                   next_cursor, page_count, batchVars>>

(***************************************************************************)
(* main.py: test_pagination.  One action is one round of the while loop;   *)
(* the round that leaves the loop also builds the response.                *)
(***************************************************************************)
\* mutant: the loop without its round cap
PaginationLoopExits_NoCap(hm, count) == ~hm

PaginationLoopExits(hm, count) == ~hm \/ count >= MaxPaginationRounds

PaginationSuccess(pages, count) ==
    [status |-> 200,
     body |-> [total_pages_fetched |-> Len(pages),
               pagination_rounds |-> count,
               pages |-> pages]]

\* mutant: a failing round answers with what was accumulated so far
PaginationFailure_Partial(pages, count) ==
    [status |-> 200,
     body |-> [total_pages_fetched |-> Len(pages),
               pagination_rounds |-> count,
               pages |-> pages]]

PaginationFailure(pages, count) ==
    [status |-> 500,
     body |-> [detail |-> [error |-> DatabaseAccessFailure.body.detail,
                           message |-> "Failed to test pagination"]]]

\* mutant: each round overwrites the accumulated list
ExtendPages_Overwrite(pages, results) == results

ExtendPages(pages, results) == pages \o results

PaginationRound ==
    /\ prog = "test_pagination"
    /\ pc = "loop"
    /\ \E r \in RemoteResponses(next_cursor, ClampPageSize(TestPageSize)) :
          LET fr == FormatResponse(r)
              pages == ExtendPages(all_pages, fr.results)
              count == page_count + 1
              exits == PaginationLoopExits(fr.has_more, count)
          IN  /\ response' = r
              /\ fetched' = fetched \o r.results
              /\ all_more' = (all_more /\ r.has_more)
              /\ all_pages' = pages
              /\ has_more' = fr.has_more
              /\ next_cursor' = fr.next_cursor
              /\ page_count' = count
              /\ pc' = IF exits THEN "done" ELSE "loop"
              /\ http' = IF exits THEN PaginationSuccess(pages, count) ELSE http
    /\ sent_cursor' = next_cursor
    /\ num_queries' = num_queries + 1
    /\ UNCHANGED <<prog, remoteKind, db, pagination, batchVars>>

PaginationRoundFail ==
    /\ prog = "test_pagination"
    /\ pc = "loop"
    /\ sent_cursor' = next_cursor
    /\ num_queries' = num_queries + 1
    /\ http' = PaginationFailure(all_pages, page_count)
    /\ pc' = "error"
    /\ UNCHANGED <<prog, remoteKind, db, pagination, response, fetched, all_more, all_pages, has_more,
                   next_cursor, page_count, batchVars>>

(***************************************************************************)
(* qr_generator.py: int() on a Python string.  Leading and trailing        *)
(* whitespace is stripped, one sign is allowed, the rest must be one or    *)
(* more decimal digits.                                                    *)
(***************************************************************************)
Digits == <<"0", "1", "2", "3", "4", "5", "6", "7", "8", "9">>
IsDigit(c) == \E d \in 1..10 : Digits[d] = c
DigitVal(c) == (CHOOSE d \in 1..10 : Digits[d] = c) - 1

RECURSIVE LStrip(_)
LStrip(s) == IF Len(s) > 0 /\ s[1] = " " THEN LStrip(Tail(s)) ELSE s

RECURSIVE RStrip(_)
RStrip(s) == IF Len(s) > 0 /\ s[Len(s)] = " " THEN RStrip(SubSeq(s, 1, Len(s) - 1)) ELSE s

RECURSIVE DigitsValue(_)
DigitsValue(s) ==
    IF Len(s) = 0 THEN 0
    ELSE 10 * DigitsValue(SubSeq(s, 1, Len(s) - 1)) + DigitVal(s[Len(s)])

ParseInt(s) ==
    LET t == RStrip(LStrip(s))
        signed == Len(t) > 0 /\ t[1] \in {"-", "+"}
        body == IF signed THEN Tail(t) ELSE t
        valid == Len(body) > 0 /\ \A i \in 1..Len(body) : IsDigit(body[i])
    IN  IF ~valid THEN [ok |-> FALSE, value |-> 0]
        ELSE [ok |-> TRUE,
              value |-> IF signed /\ t[1] = "-" THEN 0 - DigitsValue(body)
                        ELSE DigitsValue(body)]

(***************************************************************************)
(* qr_generator.py: generate_all_qrs, grouping pass                        *)
(***************************************************************************)
HasKey(d, k) == k \in DOMAIN d

\* mutant: a record whose title cannot be read is filed under the empty name
ExtractItemName_Untitled(item) ==
    LET props == item.properties
    IN  IF /\ HasKey(props, "Item")
           /\ HasKey(props.Item, "title")
           /\ Len(props.Item.title) > 0
           /\ HasKey(props.Item.title[1], "text")
           /\ HasKey(props.Item.title[1].text, "content")
        THEN [ok |-> TRUE, name |-> props.Item.title[1].text.content]
        ELSE [ok |-> TRUE, name |-> EmptyStr]

\* item['properties']['Item']['title'][0]['text']['content']
ExtractItemName(item) ==
    LET props == item.properties
    IN  IF /\ HasKey(props, "Item")
           /\ HasKey(props.Item, "title")
           /\ Len(props.Item.title) > 0
           /\ HasKey(props.Item.title[1], "text")
           /\ HasKey(props.Item.title[1].text, "content")
        THEN [ok |-> TRUE, name |-> props.Item.title[1].text.content]
        ELSE [ok |-> FALSE, name |-> EmptyStr]

\* item['properties'].get('Quantity', {}).get('rich_text', [])
QuantityText(item) ==
    IF HasKey(item.properties, "Quantity") /\ HasKey(item.properties.Quantity, "rich_text")
    THEN item.properties.Quantity.rich_text
    ELSE <<>>

\* quantity_text[0].get('text', {}).get('content')
QuantityContent(quantity_text) ==
    IF HasKey(quantity_text[1], "text") /\ HasKey(quantity_text[1].text, "content")
    THEN quantity_text[1].text.content
    ELSE None

\* what the inner try block adds to the group's total_quantity
QuantityIncrement(item) ==
    LET quantity_text == QuantityText(item)
    IN  IF Len(quantity_text) > 0 /\ Truthy(QuantityContent(quantity_text))
        THEN IF ParseInt(QuantityContent(quantity_text)).ok
             THEN ParseInt(QuantityContent(quantity_text)).value
             ELSE 1
        ELSE 0

GroupIndex(groups, name) ==
    IF \E i \in 1..Len(groups) : groups[i].name = name
    THEN CHOOSE i \in 1..Len(groups) : groups[i].name = name
    ELSE 0

\* mutant: the grouping key is the name folded to lower case and stripped
FoldName(name) ==
    LET t == RStrip(LStrip(name))
    IN  [i \in 1..Len(t) |-> IF t[i] = "W" THEN "w" ELSE IF t[i] = "B" THEN "b" ELSE t[i]]
AddToGroup_Normalized(groups, item, name) ==
    LET key == FoldName(name)
        created == IF GroupIndex(groups, key) = 0
                   THEN Append(groups, [name |-> key, items |-> <<>>, total_quantity |-> 0])
                   ELSE groups
        g == GroupIndex(created, key)
    IN  [created EXCEPT ![g].items = Append(@, item),
                        ![g].total_quantity = @ + QuantityIncrement(item)]

\* the body of the grouping loop for one record whose name was extracted
AddToGroup(groups, item, name) ==
    LET created == IF GroupIndex(groups, name) = 0
                   THEN Append(groups, [name |-> name, items |-> <<>>, total_quantity |-> 0])
                   ELSE groups
        g == GroupIndex(created, name)
    IN  [created EXCEPT ![g].items = Append(@, item),
                        ![g].total_quantity = @ + QuantityIncrement(item)]

(***************************************************************************)
(* qr_generator.py: generate_all_qrs.  Schema retrieval, then one action   *)
(* per round of the fetch loop, per record of the grouping loop and per    *)
(* group of the rendering loop.                                            *)
(***************************************************************************)
GetDatabaseSchemaOk ==
    /\ prog = "generate_all_qrs"
    /\ pc = "schema"
    /\ pc' = "fetch"
    /\ UNCHANGED <<prog, remoteKind, db, response, sent_cursor, num_queries, fetched, all_more,
                   apiVars, batchVars>>

GetDatabaseSchemaFail ==
    /\ prog = "generate_all_qrs"
    /\ pc = "schema"
    /\ pc' = "crashed"
    /\ UNCHANGED <<prog, remoteKind, db, response, sent_cursor, num_queries, fetched, all_more,
                   apiVars, batchVars>>

\* mutant: the cursor is never sent
BatchCursorParam_Dropped(cursor) == None

\* if start_cursor: query_params["start_cursor"] = start_cursor
BatchCursorParam(cursor) == IF Truthy(cursor) THEN cursor ELSE None

\* if not response.get("has_more"): break
FetchLoopExits(resp) == ~resp.has_more

FetchRound ==
    /\ prog = "generate_all_qrs"
    /\ pc = "fetch"
    /\ num_queries < MaxBatchRounds
    /\ \E r \in RemoteResponses(BatchCursorParam(start_cursor), BatchPageSize) :
          /\ response' = r
          /\ fetched' = fetched \o r.results
          /\ all_more' = (all_more /\ r.has_more)
          /\ all_results' = all_results \o r.results
          /\ IF FetchLoopExits(r)
             THEN pc' = "group" /\ start_cursor' = start_cursor
             ELSE pc' = "fetch" /\ start_cursor' = r.next_cursor
    /\ sent_cursor' = BatchCursorParam(start_cursor)
    /\ num_queries' = num_queries + 1
    /\ UNCHANGED <<prog, remoteKind, db, apiVars, items_by_name, item_idx, skipped,
                   render_idx, render_log, generated_count>>

FetchFail ==
    /\ prog = "generate_all_qrs"
    /\ pc = "fetch"
    /\ num_queries < MaxBatchRounds
    /\ sent_cursor' = BatchCursorParam(start_cursor)
    /\ num_queries' = num_queries + 1
    /\ pc' = "crashed"
    /\ UNCHANGED <<prog, remoteKind, db, response, fetched, all_more, apiVars, batchVars>>

GroupItem ==
    /\ prog = "generate_all_qrs"
    /\ pc = "group"
    /\ item_idx < Len(all_results)
    /\ LET item == all_results[item_idx + 1]
           extracted == ExtractItemName(item)
       IN  IF extracted.ok
           THEN /\ items_by_name' = AddToGroup(items_by_name, item, extracted.name)
                /\ skipped' = skipped
           ELSE /\ items_by_name' = items_by_name
                /\ skipped' = Append(skipped, item)
    /\ item_idx' = item_idx + 1
    /\ UNCHANGED <<prog, remoteKind, db, pc, response, sent_cursor, num_queries, fetched, all_more,
                   apiVars, all_results, start_cursor, render_idx, render_log,
                   generated_count>>

GroupingDone ==
    /\ prog = "generate_all_qrs"
    /\ pc = "group"
    /\ item_idx = Len(all_results)
    /\ pc' = "render"
    /\ UNCHANGED <<prog, remoteKind, db, response, sent_cursor, num_queries, fetched, all_more,
                   apiVars, batchVars>>

\* generate_item_qr up to item_name: raises unless the Item title can be read
ItemQrReadable(properties) ==
    /\ HasKey(properties, "Item")
    /\ HasKey(properties.Item, "title")
    /\ Len(properties.Item.title) > 0
    /\ HasKey(properties.Item.title[1], "text")
    /\ HasKey(properties.Item.title[1].text, "content")

\* generated_count after one iteration of the rendering loop
CountRender(count, ok) == IF ok THEN count + 1 ELSE count

\* mutant: the last member of the group is rendered
FirstItem_Last(data) == data.items[Len(data.items)]

\* the member of a group that is rendered
FirstItem(data) == data.items[1]

RenderGroup ==
    /\ prog = "generate_all_qrs"
    /\ pc = "render"
    /\ render_idx < Len(items_by_name)
    /\ LET data == items_by_name[render_idx + 1]
       IN  IF Len(data.items) = 0
           THEN UNCHANGED <<render_log, generated_count>>
           ELSE \E saved \in BOOLEAN :
                  LET first_item == FirstItem(data)
                      ok == ItemQrReadable(first_item.properties) /\ saved
                  IN  /\ render_log' = Append(render_log,
                            [name |-> data.name, page_id |-> first_item.id, ok |-> ok])
                      /\ generated_count' = CountRender(generated_count, ok)
    /\ render_idx' = render_idx + 1
    /\ UNCHANGED <<prog, remoteKind, db, pc, response, sent_cursor, num_queries, fetched, all_more,
                   apiVars, all_results, start_cursor, items_by_name, item_idx, skipped>>

Summary ==
    /\ prog = "generate_all_qrs"
    /\ pc = "render"
    /\ render_idx = Len(items_by_name)
    /\ pc' = "done"
    /\ UNCHANGED <<prog, remoteKind, db, response, sent_cursor, num_queries, fetched, all_more,
                   apiVars, batchVars>>

(***************************************************************************)
(* Initial states                                                          *)
(***************************************************************************)
SeqsUpTo(S, n) == UNION {[1..k -> S] : k \in 0..n}

W == <<"W">>
Wlower == <<"w">>
Wspace == <<"W", " ">>
B == <<"B">>

\* records of the paginated endpoint: record i of the remote set
ThinProps(i) == [Item |-> TitleProp(<<Frag(W), Frag(B)>>), Count |-> NumberProp(i)]
ThinDB(n) == [i \in 1..n |-> Rec(i, ThinProps(i))]

\* property bags of the batch run
BatchProps ==
    { [Item |-> TitleProp(<<Frag(W)>>)],
      [Item |-> TitleProp(<<Frag(W)>>), Quantity |-> RichTextProp(<<Frag(<<"5">>)>>)],
      [Item |-> TitleProp(<<Frag(W), Frag(B)>>), Quantity |-> RichTextProp(<<Frag(<<"x">>)>>)],
      [Item |-> TitleProp(<<Frag(Wlower)>>), Quantity |-> RichTextProp(<<Frag(<<"1", "2">>)>>)],
      [Item |-> TitleProp(<<Frag(Wspace)>>), Quantity |-> RichTextProp(<<>>)],
      [Item |-> TitleProp(<<Frag(B)>>), Quantity |-> RichTextProp(<<Frag(<<" ", "-", "3">>)>>)],
      [Item |-> TitleProp(<<Frag(B)>>), Quantity |-> NumberProp(4)],
      [Quantity |-> RichTextProp(<<Frag(<<"5">>)>>)],
      [Item |-> TitleProp(<<>>)],
      [Item |-> TitleProp(<<Mention(B)>>), Quantity |-> RichTextProp(<<Frag(<<"5">>)>>)] }

AdvProps ==
    { [Item |-> TitleProp(<<Frag(W)>>), Quantity |-> RichTextProp(<<Frag(<<"5">>)>>)],
      [Quantity |-> RichTextProp(<<Frag(<<"5">>)>>)] }

DBsOver(props, n) ==
    {[i \in DOMAIN ps |-> Rec(i, ps[i])] : ps \in SeqsUpTo(props, n)}

\* property bags of the single-page endpoint
FragTexts == {<<"a">>, <<"b", "c">>, EmptyStr}
FragSeqs == {[i \in DOMAIN ts |-> Frag(ts[i])] : ts \in SeqsUpTo(FragTexts, MaxFrags)}
OtherProps ==
    {RichTextProp(f) : f \in FragSeqs}
    \cup {NumberProp(7), SelectProp(<<"a">>), MultiSelectProp(<< <<"a">>, <<"b">> >>),
          CheckboxProp(TRUE)}
FlattenProps ==
    {[Item |-> TitleProp(t), Notes |-> q] : t \in FragSeqs, q \in OtherProps}
    \cup {[Notes |-> q] : q \in OtherProps}
FixedProps == [Item |-> TitleProp(<<Frag(W)>>), Count |-> NumberProp(3), Tag |-> SelectProp(B)]
FlattenDBs ==
    {<<>>}
    \cup {<<Rec(1, p)>> : p \in FlattenProps}
    \cup {<<Rec(1, p), Rec(2, FixedProps)>> : p \in FlattenProps}
    \cup {<<Rec(1, FixedProps), Rec(2, p)>> : p \in FlattenProps}

InitCommon ==
    /\ response = EmptyResponse
    /\ sent_cursor = None
    /\ num_queries = 0
    /\ fetched = <<>>
    /\ all_more = TRUE
    /\ all_pages = <<>>
    /\ has_more = TRUE
    /\ next_cursor = None
    /\ page_count = 0
    /\ http = NoHttp
    /\ all_results = <<>>
    /\ start_cursor = None
    /\ items_by_name = <<>>
    /\ item_idx = 0
    /\ skipped = <<>>
    /\ render_idx = 0
    /\ render_log = <<>>
    /\ generated_count = 0

InitDatabaseAccess ==
    /\ prog = "test_database_access"
    /\ pc = "start"
    /\ remoteKind \in {"full", "adversarial"}
    /\ db \in FlattenDBs
    /\ pagination \in [start_cursor : {None, Cur(1)}, page_size : {1, 150}]
    /\ InitCommon

\* The remote set has up to MaxRemote records when every page is full, up to
\* MaxShortRemote when pages may be short, up to MaxAdvRecords when the remote is
\* adversarial.
InitPagination ==
    /\ prog = "test_pagination"
    /\ pc = "loop"
    /\ \/ remoteKind = "full" /\ db \in {ThinDB(n) : n \in 0..MaxRemote}
       \/ remoteKind = "short" /\ db \in {ThinDB(n) : n \in 0..MaxShortRemote}
       \/ remoteKind = "adversarial" /\ db \in {ThinDB(n) : n \in 0..MaxAdvRecords}
    /\ pagination = [start_cursor |-> None, page_size |-> TestPageSize]
    /\ InitCommon

\* A remote that fills its pages holds up to MaxRecords records over BatchProps; a
\* short-paged or adversarial remote holds up to MaxAdvRecords records over AdvProps.
\* The fetch loop has no bound of its own: the model stops it after MaxBatchRounds
\* queries.
InitBatch ==
    /\ prog = "generate_all_qrs"
    /\ pc = "schema"
    /\ \/ remoteKind = "full" /\ db \in DBsOver(BatchProps, MaxRecords)
       \/ remoteKind \in {"short", "adversarial"} /\ db \in DBsOver(AdvProps, MaxAdvRecords)
    /\ pagination = [start_cursor |-> None, page_size |-> TestPageSize]
    /\ InitCommon

NextDatabaseAccess == TestDatabaseAccessOk \/ TestDatabaseAccessFail
NextPagination == PaginationRound \/ PaginationRoundFail
NextBatch ==
    \/ GetDatabaseSchemaOk
    \/ GetDatabaseSchemaFail
    \/ FetchRound
    \/ FetchFail
    \/ GroupItem
    \/ GroupingDone
    \/ RenderGroup
    \/ Summary

\* the single-page endpoint on bounded pages
SpecDatabaseAccess == InitDatabaseAccess /\ [][NextDatabaseAccess]_vars
\* the paginated endpoint
SpecPagination == InitPagination /\ [][NextPagination]_vars
\* the batch run
SpecBatch == InitBatch /\ [][NextBatch]_vars

Init == InitPagination \/ InitBatch
Next == NextPagination \/ NextBatch
\* both pagination loops
Spec == Init /\ [][Next]_vars

\* the paginated endpoint, a request that is being served keeps running
FairSpecPagination == SpecPagination /\ WF_vars(NextPagination)

(***************************************************************************)
(* Claims                                                                  *)
(***************************************************************************)
FlattenAll(records) == [i \in 1..Len(records) |-> FormatPage(records[i])]

C1_RoundsBounded ==
    prog = "test_pagination" =>
        /\ num_queries <= 10
        /\ page_count <= 10
        /\ (pc = "loop" => page_count < 10 /\ num_queries = page_count)
        /\ (pc = "done" /\ all_more =>
                /\ num_queries = 10
                /\ page_count = 10
                /\ http.status = 200
                /\ http.body.pagination_rounds = 10
                /\ http.body.pages = FlattenAll(fetched)
                /\ http.body.total_pages_fetched = Len(fetched))

\* C1: whatever the remote answers, test_pagination issues at most 10 remote queries
\* and leaves its loop; when every response reports has_more = true it runs exactly
\* 10 rounds, reports pagination_rounds = 10 and returns the flattened concatenation
\* of the results of exactly those 10 rounds.
C1_TerminatesWithinCap == [](C1_RoundsBounded) /\ <>(pc # "loop")

\* C1 witness: a run of 10 rounds, has_more = true in each, that returned 100 records
C1_Witness ==
    /\ prog = "test_pagination"
    /\ pc = "done"
    /\ all_more
    /\ page_count = 10
    /\ Len(http.body.pages) = 100

\* C8: when the remote query of round k fails, the request ends with status 500 after
\* exactly k remote queries, no further round can run, and the error body carries none
\* of the results of rounds 1..k-1.
C8_FailureEndsRequest ==
    (prog = "test_pagination" /\ pc = "error") =>
        /\ http.status = 500
        /\ num_queries = page_count + 1
        /\ num_queries \in 1..10
        /\ DOMAIN http.body = {"detail"}
        /\ DOMAIN http.body.detail = {"error", "message"}
        /\ http.body.detail.message = "Failed to test pagination"
        /\ ~ENABLED NextPagination

\* C8 witness: the query of round 3 failed after two rounds had accumulated results
C8_Witness ==
    /\ prog = "test_pagination"
    /\ pc = "error"
    /\ page_count = 2
    /\ num_queries = 3
    /\ Len(all_pages) > 0

C4_LengthBounded ==
    (prog = "test_pagination" /\ pc = "done" /\ remoteKind \in {"full", "short"}) =>
        /\ Len(http.body.pages) <= 100
        /\ http.body.total_pages_fetched = Len(http.body.pages)

\* C4 as stated: a remote that returns at most page_size records per page, in cursor
\* order, yields a list of length <= 100 that equals the whole remote set whenever the
\* set has at most 100 records.
C4_Original ==
    /\ C4_LengthBounded
    /\ (prog = "test_pagination" /\ pc = "done" /\ remoteKind \in {"full", "short"}
            /\ Len(db) <= 100) =>
            /\ http.body.pages = FlattenAll(db)
            /\ http.body.total_pages_fetched = Len(db)

\* C4 amended: the list has length <= 100 for every remote that returns at most
\* page_size records per page in cursor order; it equals the whole remote set, each
\* record once and in remote order, when the set has at most 100 records and the
\* remote fills every page (min(page_size, remaining) records).
C4_FullPagesComplete ==
    /\ C4_LengthBounded
    /\ (prog = "test_pagination" /\ pc = "done" /\ remoteKind = "full" /\ Len(db) <= 100) =>
            /\ http.body.pages = FlattenAll(db)
            /\ http.body.total_pages_fetched = Len(db)

\* C4 witness: a remote set of exactly 100 records, served in full pages, returned whole
C4_Witness ==
    /\ prog = "test_pagination"
    /\ pc = "done"
    /\ remoteKind = "full"
    /\ Len(db) = 100
    /\ page_count = 10
    /\ Len(http.body.pages) = 100

\* number of characters of the fragments before fragment i
RECURSIVE TextOffset(_, _)
TextOffset(frags, i) ==
    IF i <= 1 THEN 0 ELSE TextOffset(frags, i - 1) + Len(frags[i - 1].plain_text)

\* s is the plain_text of every fragment, in source order, and nothing else
IsConcatenation(s, frags) ==
    /\ Len(s) = TextOffset(frags, Len(frags) + 1)
    /\ \A i \in 1..Len(frags) :
          SubSeq(s, TextOffset(frags, i) + 1, TextOffset(frags, i + 1)) = frags[i].plain_text

PayloadOf(prop) ==
    CASE prop.type = "number" -> prop.number
      [] prop.type = "select" -> prop.select
      [] prop.type = "multi_select" -> prop.multi_select
      [] prop.type = "checkbox" -> prop.checkbox

FlattenedAs(value, prop) ==
    CASE prop.type = "title" -> IsConcatenation(value, prop.title)
      [] prop.type = "rich_text" -> IsConcatenation(value, prop.rich_text)
      [] OTHER -> value = PayloadOf(prop)

\* C7: the envelope of test_database_access holds, for every record of the remote page
\* and in the remote's order, the same property names, each title and rich_text
\* property as the concatenation of its fragments' plain_text in source order ("" for
\* no fragment), every other property as the payload under its kind name, and the
\* remote's has_more and next_cursor.
C7_FlattenedEnvelope ==
    (prog = "test_database_access" /\ pc = "done") =>
        /\ http.status = 200
        /\ http.body.object = "list"
        /\ http.body.type = "page"
        /\ http.body.has_more = response.has_more
        /\ http.body.next_cursor = response.next_cursor
        /\ Len(http.body.results) = Len(response.results)
        /\ \A i \in 1..Len(response.results) :
              LET page == response.results[i]
                  flat == http.body.results[i]
              IN  /\ flat.id = page.id
                  /\ flat.url = page.url
                  /\ DOMAIN flat.properties = DOMAIN page.properties
                  /\ \A n \in DOMAIN page.properties :
                        FlattenedAs(flat.properties[n], page.properties[n])

\* C7 witness: a page of two records whose first has a two-fragment title and a select
C7_Witness ==
    /\ prog = "test_database_access"
    /\ pc = "done"
    /\ Len(response.results) = 2
    /\ response.has_more
    /\ response.results[1].properties = [Item |-> TitleProp(<<Frag(<<"a">>), Frag(<<"b", "c">>)>>),
                                         Notes |-> SelectProp(<<"a">>)]
    /\ http.body.results[1].properties.Item = <<"a", "b", "c">>
    /\ http.body.results[1].properties.Notes = [name |-> <<"a">>]

\* a record whose Item title can be read, and the name read
Named(r) ==
    /\ "Item" \in DOMAIN r.properties
    /\ "title" \in DOMAIN r.properties.Item
    /\ Len(r.properties.Item.title) > 0
    /\ "text" \in DOMAIN r.properties.Item.title[1]
NameOf(r) == r.properties.Item.title[1].text.content

\* a record without an Item title: the property is absent or its fragment list is empty
LacksTitle(r) ==
    \/ "Item" \notin DOMAIN r.properties
    \/ Len(r.properties.Item.title) = 0

\* the quantity the claim counts for a record: the integer its Quantity rich text
\* parses to, and 1 when the property is missing, empty or not a number
ClaimedQuantity(r) ==
    IF /\ "Quantity" \in DOMAIN r.properties
       /\ "rich_text" \in DOMAIN r.properties.Quantity
       /\ Len(r.properties.Quantity.rich_text) > 0
       /\ ParseInt(r.properties.Quantity.rich_text[1].text.content).ok
    THEN ParseInt(r.properties.Quantity.rich_text[1].text.content).value
    ELSE 1

RECURSIVE SumClaimed(_)
SumClaimed(items) ==
    IF Len(items) = 0 THEN 0 ELSE ClaimedQuantity(items[1]) + SumClaimed(Tail(items))

\* C2: each group's total_quantity is the sum over its members of the parsed Quantity,
\* counting 1 for a member whose Quantity is missing, empty or not a number.
C2_TotalQuantity ==
    prog = "generate_all_qrs" =>
        \A g \in 1..Len(items_by_name) :
            items_by_name[g].total_quantity = SumClaimed(items_by_name[g].items)

\* C3: the fetch loop of generate_all_qrs has left the loop once 10 rounds have run,
\* so it never issues an 11th query.
C3_FetchStopsAtCap ==
    prog = "generate_all_qrs" =>
        /\ num_queries <= 10
        /\ (pc = "fetch" => num_queries < 10)

\* C5: the groups have pairwise different names, and each group holds exactly the
\* records grouped so far whose raw extracted name is the group's name, in fetch order;
\* every such record has a group.
C5_GroupedByRawName ==
    prog = "generate_all_qrs" =>
        LET processed == SubSeq(all_results, 1, item_idx)
        IN  /\ \A g, h \in 1..Len(items_by_name) :
                  g # h => items_by_name[g].name # items_by_name[h].name
            /\ \A g \in 1..Len(items_by_name) :
                  LET InGroup(r) == Named(r) /\ NameOf(r) = items_by_name[g].name
                  IN  items_by_name[g].items = SelectSeq(processed, InGroup)
            /\ \A i \in 1..Len(processed) :
                  Named(processed[i]) =>
                      \E g \in 1..Len(items_by_name) :
                          items_by_name[g].name = NameOf(processed[i])

\* C5 witness: records W, W, w grouped into "W" with two members and "w" with one
C5_Witness ==
    /\ prog = "generate_all_qrs"
    /\ pc = "done"
    /\ Len(all_results) = 3
    /\ Len(items_by_name) = 2
    /\ items_by_name[1].name = W
    /\ Len(items_by_name[1].items) = 2
    /\ items_by_name[2].name = Wlower
    /\ Len(items_by_name[2].items) = 1

C6_NoUntitledMember ==
    prog = "generate_all_qrs" =>
        \A g \in 1..Len(items_by_name) :
            \A k \in 1..Len(items_by_name[g].items) :
                ~LacksTitle(items_by_name[g].items[k])

C6_AllProcessed ==
    (prog = "generate_all_qrs" /\ pc \in {"render", "done"}) =>
        /\ item_idx = Len(all_results)
        /\ \A i \in 1..Len(all_results) :
              Named(all_results[i]) =>
                  \E g \in 1..Len(items_by_name) :
                      \E k \in 1..Len(items_by_name[g].items) :
                          items_by_name[g].items[k] = all_results[i]

C6_SkipStep ==
    (/\ prog = "generate_all_qrs"
     /\ pc = "group"
     /\ item_idx' = item_idx + 1
     /\ LacksTitle(all_results[item_idx + 1]))
        => (items_by_name' = items_by_name /\ pc' = "group")

\* C6: a record without an Item title is a member of no group, and the step that
\* consumes it leaves every group as it was and stays in the grouping loop; once the
\* pass is over every record was consumed and every record with a readable title,
\* also one that follows an untitled record, is in a group.
C6_UntitledSkipped == [](C6_NoUntitledMember) /\ [](C6_AllProcessed) /\ [][C6_SkipStep]_vars

\* C6 witness: a record without Item, one with an empty title, then a titled record
\* that was grouped
C6_Witness ==
    /\ prog = "generate_all_qrs"
    /\ pc = "done"
    /\ Len(all_results) = 3
    /\ "Item" \notin DOMAIN all_results[1].properties
    /\ "Item" \in DOMAIN all_results[2].properties
    /\ LacksTitle(all_results[2])
    /\ Named(all_results[3])
    /\ Len(skipped) = 2
    /\ Len(items_by_name) = 1
    /\ items_by_name[1].items = <<all_results[3]>>

\* the first record in fetch order that carries the name
FirstFetched(name) ==
    all_results[CHOOSE j \in 1..Len(all_results) :
                    /\ Named(all_results[j]) /\ NameOf(all_results[j]) = name
                    /\ \A k \in 1..(j - 1) :
                          ~(Named(all_results[k]) /\ NameOf(all_results[k]) = name)]

FailedRenders == Cardinality({i \in 1..Len(render_log) : ~render_log[i].ok})

\* C10: every group has a member; each iteration of the rendering loop attempts one
\* render, of the group's first member in fetch order, also after a failed render; at
\* the end generated_count is the number of groups minus the number of failed renders.
C10_OneRenderPerGroup ==
    prog = "generate_all_qrs" =>
        /\ \A g \in 1..Len(items_by_name) : Len(items_by_name[g].items) >= 1
        /\ Len(render_log) = render_idx
        /\ \A i \in 1..Len(render_log) :
              /\ render_log[i].name = items_by_name[i].name
              /\ render_log[i].page_id = FirstFetched(items_by_name[i].name).id
        /\ generated_count = Len(render_log) - FailedRenders
        /\ (pc = "done" =>
                /\ Len(render_log) = Len(items_by_name)
                /\ generated_count = Len(items_by_name) - FailedRenders)

\* C10 witness: two groups, the first of two members; its render failed, the next one
\* was still attempted and succeeded
C10_Witness ==
    /\ prog = "generate_all_qrs"
    /\ pc = "done"
    /\ Len(items_by_name) = 2
    /\ Len(items_by_name[1].items) = 2
    /\ Len(render_log) = 2
    /\ ~render_log[1].ok
    /\ render_log[2].ok
    /\ generated_count = 1

\* a step that issues a remote query
QueryStep == num_queries' = num_queries + 1

C9_FirstQueryFromStart == (QueryStep /\ num_queries = 0) => sent_cursor' = None

C9_NoRestart ==
    (QueryStep /\ num_queries > 0) =>
        /\ sent_cursor' = response.next_cursor
        /\ sent_cursor' # None

\* C9 as stated: the first query carries no cursor; every later query carries exactly
\* the next_cursor of the preceding response and is never a query from the start of
\* the set, whatever next_cursor that response gave.
C9_Original == [][C9_FirstQueryFromStart /\ C9_NoRestart]_vars

C9_Chained ==
    (QueryStep /\ num_queries > 0) =>
        sent_cursor' =
            IF prog = "generate_all_qrs" /\ response.next_cursor = EmptyStr
            THEN None
            ELSE response.next_cursor

C9_NoPageTwice ==
    remoteKind \in {"full", "short"} =>
        /\ Len(fetched) <= Len(db)
        /\ fetched = SubSeq(db, 1, Len(fetched))

\* C9 amended: in both loops the first query carries no cursor and every later query
\* carries the next_cursor of the preceding response, except that the batch loop sends
\* no cursor when that next_cursor is empty; a null (or, in the batch loop, empty)
\* next_cursor therefore makes the next query start from the beginning of the set.
\* With a remote that gives a cursor whenever has_more is true no page is accumulated
\* twice.
C9_CursorChained ==
    [][C9_FirstQueryFromStart /\ C9_Chained]_vars /\ [](C9_NoPageTwice)

\* C9 witness: the batch loop sent the cursor of the first response in its second query
C9_Witness ==
    /\ prog = "generate_all_qrs"
    /\ remoteKind = "short"
    /\ num_queries = 2
    /\ sent_cursor = Cur(1)
    /\ Len(all_results) = 2

====
